---- MODULE Spec2Model ----
(***************************************************************************)
(* Sefirat HaOmer core (src/sfirat_haomer/core.py, data.py): the mapping   *)
(* between Hebrew dates and the Omer ordinal 1..49, the OmerDay record and *)
(* the query functions built on them.  The program keeps no state between  *)
(* calls; the state of the model is the last call made, its arguments and  *)
(* the value it returned or the exception it raised, together with what   *)
(* the static tables of data.py hold: defects is the set of entries by     *)
(* which the per-day tables differ from the shipped ones, <<table, key,    *)
(* "absent">> for a key the table lacks and <<table, key, "empty">> for an *)
(* entry that is the empty string (none in the shipped tables); written is *)
(* the set of static objects a caller has modified through a value that    *)
(* was returned to it.                                                     *)
(***************************************************************************)
EXTENDS Integers, Sequences, FiniteSets, TLC

VARIABLES op, args, result, defects, written, held

vars == <<op, args, result, defects, written, held>>

(***************************************************************************)
(* Bounds of the explored inputs.                                          *)
(***************************************************************************)
MaxDay == 33          \* Hebrew day arguments range over -2..MaxDay
MaxOrdinal == 52      \* ordinal / day-number arguments range over -3..MaxOrdinal
MaxWeek == 9          \* week arguments range over -1..MaxWeek
MaxRangeLen == 2      \* Gregorian ranges span at most MaxRangeLen + 1 days, up to date.max
MaxBridgeMonth == 4   \* month indexes the calendar bridge may answer: 1..MaxBridgeMonth

DayInputs == (0 - 2)..MaxDay
OrdinalInputs == (0 - 3)..MaxOrdinal
WeekInputs == (0 - 1)..MaxWeek

(***************************************************************************)
(* Strings whose characters the code inspects are sequences of character   *)
(* codes; str.capitalize() upper-cases the first character and lower-cases *)
(* the others.                                                             *)
(***************************************************************************)
Upper(c) == IF c \in 97..122 THEN c - 32 ELSE c
Lower(c) == IF c \in 65..90 THEN c + 32 ELSE c
capitalize(s) == [i \in 1..Len(s) |-> IF i = 1 THEN Upper(s[i]) ELSE Lower(s[i])]
lower(s) == [i \in 1..Len(s) |-> Lower(s[i])]

\* class OmerMonth(Enum)
NISAN == <<78, 105, 115, 97, 110>>      \* "Nisan"
IYYAR == <<73, 121, 121, 97, 114>>      \* "Iyyar"
SIVAN == <<83, 105, 118, 97, 110>>      \* "Sivan"
OmerMonth == {NISAN, IYYAR, SIVAN}

\* month arguments tried by the callers of the model
MonthInputs ==
    { NISAN, IYYAR, SIVAN,
      <<110, 105, 115, 97, 110>>,          \* "nisan"
      <<78, 73, 83, 65, 78>>,              \* "NISAN"
      <<105, 89, 89, 65, 82>>,             \* "iYYAR"
      <<115, 105, 118, 97, 110>>,          \* "sivan"
      <<83, 73, 86, 65, 78>>,              \* "SIVAN"
      <<84, 105, 115, 104, 114, 101, 105>>,\* "Tishrei"
      <<116, 105, 115, 104, 114, 101, 105>>,\* "tishrei"
      <<73, 121, 97, 114>>,                \* "Iyar"
      <<32, 78, 105, 115, 97, 110>>,       \* " Nisan"
      <<>> }                               \* ""

(***************************************************************************)
(* Values a call can produce.  Each is a tuple that starts with its kind:  *)
(* a raised exception, a returned str, bool, int, tuple or list, or an     *)
(* OmerDay object.                                                         *)
(***************************************************************************)
Raise(exc, msg) == <<"raise", exc, msg>>
StrV(fmt, params) == <<"str", fmt, params>>
BoolV(b) == <<"bool", b>>
IntV(n) == <<"int", n>>
TupleV(t) == <<"tuple", t>>
ListV(s) == <<"list", s>>

Kind(r) == r[1]
Value(r) == r[2]
Raises(r) == Kind(r) = "raise"

\* dict.get(key, default)
Get(dict, key, default) == IF key \in DOMAIN dict THEN dict[key] ELSE default

\* range(a, b)
range(a, b) == { n \in a..(b - 1) : TRUE }

(***************************************************************************)
(* data.py: static tables.  The literal texts are named by their table and *)
(* key.                                                                    *)
(***************************************************************************)
EmptyStr == <<>>

\* the keys a table lacks, and the keys whose entry is the empty string
Absent(table) == { d[2] : d \in { x \in defects : x[1] = table /\ x[3] = "absent" } }
Empty(table) == { d[2] : d \in { x \in defects : x[1] = table /\ x[3] = "empty" } }
missing == Absent("OMER_TEXTS")

\* a per-day table of texts
TextTable(table) ==
    [n \in (1..49) \ Absent(table) |-> IF n \in Empty(table) THEN EmptyStr ELSE <<table, n>>]

OMER_TEXTS == TextTable("OMER_TEXTS")
OMER_TRANSLITERATIONS == TextTable("OMER_TRANSLITERATIONS")
OMER_ENGLISH_TRANSLATIONS == TextTable("OMER_ENGLISH_TRANSLATIONS")

HEBREW_MONTHS == (1 :> NISAN) @@ (2 :> IYYAR) @@ (3 :> SIVAN)
\* variant: Iyyar given 30 days
HEBREW_MONTH_LENGTHS_iyyar30 == (NISAN :> 30) @@ (IYYAR :> 30) @@ (SIVAN :> 30)
HEBREW_MONTH_LENGTHS == (NISAN :> 30) @@ (IYYAR :> 29) @@ (SIVAN :> 30)

SEFIROT_ATTRIBUTES ==
    (1 :> "Chesed") @@ (2 :> "Gevurah") @@ (3 :> "Tiferet") @@ (4 :> "Netzach") @@
    (5 :> "Hod") @@ (6 :> "Yesod") @@ (7 :> "Malchut")

\* variant: the week and the day attributes change places
DAILY_SEFIROT_swapped ==
    [n \in { (w - 1) * 7 + d : w \in 1..7, d \in 1..7 } |->
        LET w == CHOOSE w \in 1..7 : \E d \in 1..7 : (w - 1) * 7 + d = n
            d == n - (w - 1) * 7
        IN  <<SEFIROT_ATTRIBUTES[d], SEFIROT_ATTRIBUTES[w],
              <<SEFIROT_ATTRIBUTES[w], "within", SEFIROT_ATTRIBUTES[d]>>>>]

\* the loop that fills DAILY_SEFIROT: key (week - 1) * 7 + day for week, day in 1..7,
\* value <<week_sefirah, day_sefirah, combination>>
DAILY_SEFIROT ==
    [n \in { (w - 1) * 7 + d : w \in 1..7, d \in 1..7 } |->
        LET w == CHOOSE w \in 1..7 : \E d \in 1..7 : (w - 1) * 7 + d = n
            d == n - (w - 1) * 7
        IN  <<SEFIROT_ATTRIBUTES[w], SEFIROT_ATTRIBUTES[d],
              <<SEFIROT_ATTRIBUTES[d], "within", SEFIROT_ATTRIBUTES[w]>>>>]

\* day in DAILY_SEFIROT
InDailySefirot(day) == day \in DOMAIN DAILY_SEFIROT /\ day \notin Absent("DAILY_SEFIROT")

\* a static dict or list of data.py as it is now: the shipped content, with one
\* more entry when a caller that was handed the object itself has written to it
Obj(id, shipped) ==
    IF id \in written THEN Append(shipped, <<"entry added by a caller">>) ELSE shipped

\* SPECIAL_DAYS: <<name, description>> per key, and the keys in the order the dict
\* literal lists them
SPECIAL_DAYS ==
    (33 :> Obj(<<"SPECIAL_DAYS", 33>>,
               <<"Lag BaOmer", "33rd day of the Omer, a day of celebration">>)) @@
    (18 :> Obj(<<"SPECIAL_DAYS", 18>>, <<"Pesach Sheni", "Second Passover">>))
SPECIAL_DAYS_keys == <<33, 18>>

\* a dict with string keys is the sequence of its <<key, value>> items
Keys(dict) == { dict[i][1] : i \in 1..Len(dict) }
Lookup(dict, key, default) ==
    IF key \in Keys(dict)
      THEN dict[CHOOSE i \in 1..Len(dict) : dict[i][1] = key][2]
      ELSE default

\* the three items every text dict has, named by their table
TextItems(table) ==
    << <<"hebrew", <<table, "hebrew">>>>,
       <<"transliteration", <<table, "transliteration">>>>,
       <<"english", <<table, "english">>>> >>

OMER_BLESSING == Obj(<<"OMER_BLESSING">>, TextItems("OMER_BLESSING"))
OMER_PRAYER == Obj(<<"OMER_PRAYER">>, TextItems("OMER_PRAYER"))

ANA_BEKOACH ==
    << <<"hebrew", Obj(<<"ANA_BEKOACH", "hebrew">>, <<"seven lines">>)>>,
       <<"transliteration", Obj(<<"ANA_BEKOACH", "transliteration">>, <<"seven lines">>)>>,
       <<"english", Obj(<<"ANA_BEKOACH", "english">>, <<"seven lines">>)>> >>

SPECIAL_PRAYERS ==
    << <<"lag_baomer", Obj(<<"SPECIAL_PRAYERS", "lag_baomer">>, TextItems("lag_baomer"))>> >>

\* HEBREW_WEEKDAYS, keys 0 (Sunday) .. 6 (Sabbath)
HEBREW_WEEKDAYS ==
    [d \in 0..6 |-> Obj(<<"HEBREW_WEEKDAYS", d>>, TextItems(<<"HEBREW_WEEKDAYS", d>>))]

CUSTOM_TEXTS ==
    << <<"sefardi",
         Obj(<<"CUSTOM_TEXTS", "sefardi">>,
             << <<"omer_intro", <<"sefardi", "omer_intro">>>>,
                <<"omer_intro_transliteration", <<"sefardi", "omer_intro_transliteration">>>>,
                <<"omer_intro_english", <<"sefardi", "omer_intro_english">>>> >>)>>,
       <<"ashkenazi",
         Obj(<<"CUSTOM_TEXTS", "ashkenazi">>,
             << <<"omer_intro", <<"ashkenazi", "omer_intro">>>>,
                <<"omer_intro_transliteration", <<"ashkenazi", "omer_intro_transliteration">>>>,
                <<"omer_intro_english", <<"ashkenazi", "omer_intro_english">>>> >>)>>,
       <<"chassidic",
         Obj(<<"CUSTOM_TEXTS", "chassidic">>,
             << <<"additional_prayer", <<"chassidic", "additional_prayer">>>>,
                <<"additional_prayer_transliteration",
                  <<"chassidic", "additional_prayer_transliteration">>>>,
                <<"additional_prayer_english",
                  <<"chassidic", "additional_prayer_english">>>> >>)>> >>

KAVANNOT == << <<"general", Obj(<<"KAVANNOT", "general">>, TextItems("KAVANNOT"))>> >>

ERR_invalid_day == StrV("Invalid day for Omer counting", <<>>)
ERR_out_of_range == StrV("Day must be between 1 and 49", <<>>)
ERR_date_error == StrV("Date error", <<>>)

(***************************************************************************)
(* core.py: OmerCalculator                                                 *)
(***************************************************************************)
\* variant: Iyyar counted with 30 days
OMER_RANGES_iyyar30 == (NISAN :> range(16, 31)) @@ (IYYAR :> range(1, 31)) @@ (SIVAN :> range(1, 6))

OMER_RANGES == (NISAN :> range(16, 31)) @@ (IYYAR :> range(1, 30)) @@ (SIVAN :> range(1, 6))

is_omer_period(day, month) ==
    LET m == capitalize(month)
    IN  m \in DOMAIN OMER_RANGES /\ day \in OMER_RANGES[m]

\* variant: Iyyar offset off by one
calculate_omer_day_iyyar14(day, month) ==
    LET m == capitalize(month)
    IN  IF m = NISAN THEN IntV(day - 15)
        ELSE IF m = IYYAR THEN IntV(14 + day)
        ELSE IF m = SIVAN THEN IntV(44 + day)
        ELSE Raise("ValueError", StrV("Invalid Hebrew month for Omer calculation: {month}", <<m>>))

\* variant: any other month silently counted as Sivan
calculate_omer_day_default(day, month) ==
    LET m == capitalize(month)
    IN  IF m = NISAN THEN IntV(day - 15)
        ELSE IF m = IYYAR THEN IntV(15 + day)
        ELSE IntV(44 + day)

\* variant: the month name is compared as given
calculate_omer_day_nocap(day, month) ==
    IF month = NISAN THEN IntV(day - 15)
    ELSE IF month = IYYAR THEN IntV(15 + day)
    ELSE IF month = SIVAN THEN IntV(44 + day)
    ELSE Raise("ValueError", StrV("Invalid Hebrew month for Omer calculation: {month}", <<month>>))

calculate_omer_day(day, month) ==
    LET m == capitalize(month)
    IN  IF m = NISAN THEN IntV(day - 15)
        ELSE IF m = IYYAR THEN IntV(15 + day)
        ELSE IF m = SIVAN THEN IntV(44 + day)
        ELSE Raise("ValueError", StrV("Invalid Hebrew month for Omer calculation: {month}", <<m>>))

\* variant: Nisan offset off by one
get_hebrew_date_from_omer_day_plus16(omer_day) ==
    IF ~(1 <= omer_day /\ omer_day <= 49) THEN Raise("ValueError", ERR_out_of_range)
    ELSE IF omer_day <= 15 THEN TupleV(<<omer_day + 16, NISAN>>)
    ELSE IF omer_day <= 44 THEN TupleV(<<omer_day - 15, IYYAR>>)
    ELSE TupleV(<<omer_day - 44, SIVAN>>)

\* variant: the Nisan branch ends one ordinal early
get_hebrew_date_from_omer_day_lt15(omer_day) ==
    IF ~(1 <= omer_day /\ omer_day <= 49) THEN Raise("ValueError", ERR_out_of_range)
    ELSE IF omer_day < 15 THEN TupleV(<<omer_day + 15, NISAN>>)
    ELSE IF omer_day <= 44 THEN TupleV(<<omer_day - 15, IYYAR>>)
    ELSE TupleV(<<omer_day - 44, SIVAN>>)

get_hebrew_date_from_omer_day(omer_day) ==
    IF ~(1 <= omer_day /\ omer_day <= 49) THEN Raise("ValueError", ERR_out_of_range)
    ELSE IF omer_day <= 15 THEN TupleV(<<omer_day + 15, NISAN>>)
    ELSE IF omer_day <= 44 THEN TupleV(<<omer_day - 15, IYYAR>>)
    ELSE TupleV(<<omer_day - 44, SIVAN>>)

(***************************************************************************)
(* core.py: class OmerDay.  An OmerDay object is the tuple                  *)
(*   <<"OmerDay", day, text, transliteration, english_translation,         *)
(*     hebrew_date, gregorian_date, sefirah_info, is_special_day,          *)
(*     special_day_info>>                                                  *)
(* None is <<>> for a tuple or dict field and NoDate for a date field.      *)
(***************************************************************************)
None == <<>>
NoDate == 0

Day(o) == o[2]
Text(o) == o[3]
Transliteration(o) == o[4]
EnglishTranslation(o) == o[5]
HebrewDate(o) == o[6]
GregorianDate(o) == o[7]
SefirahInfo(o) == o[8]
IsSpecialDay(o) == o[9]
SpecialDayInfo(o) == o[10]
IsOmerDay(r) == Kind(r) = "OmerDay"

\* variant: __post_init__ without the range check
\* a text made by an f-string is the sequence of its literal pieces and values
OmerDay_nocheck(day, text, transliteration, english_translation, hebrew_date, gregorian_date) ==
    <<"OmerDay",
      day,
      IF text = EmptyStr
        THEN Get(OMER_TEXTS, day, <<"Missing text for day ", day>>) ELSE text,
      IF transliteration = EmptyStr
        THEN Get(OMER_TRANSLITERATIONS, day, EmptyStr) ELSE transliteration,
      IF english_translation = EmptyStr
        THEN Get(OMER_ENGLISH_TRANSLATIONS, day, EmptyStr) ELSE english_translation,
      hebrew_date,
      gregorian_date,
      IF InDailySefirot(day) THEN DAILY_SEFIROT[day] ELSE None,
      day \in DOMAIN SPECIAL_DAYS,
      IF day \in DOMAIN SPECIAL_DAYS THEN SPECIAL_DAYS[day] ELSE None>>

\* the constructor followed by __post_init__
OmerDay(day, text, transliteration, english_translation, hebrew_date, gregorian_date) ==
    IF ~(1 <= day /\ day <= 49) THEN Raise("ValueError", ERR_out_of_range)
    ELSE <<"OmerDay",
           day,
           IF text = EmptyStr
             THEN Get(OMER_TEXTS, day, <<"Missing text for day ", day>>) ELSE text,
           IF transliteration = EmptyStr
             THEN Get(OMER_TRANSLITERATIONS, day, EmptyStr) ELSE transliteration,
           IF english_translation = EmptyStr
             THEN Get(OMER_ENGLISH_TRANSLATIONS, day, EmptyStr) ELSE english_translation,
           hebrew_date,
           gregorian_date,
           IF InDailySefirot(day) THEN DAILY_SEFIROT[day] ELSE None,
           day \in DOMAIN SPECIAL_DAYS,
           IF day \in DOMAIN SPECIAL_DAYS THEN SPECIAL_DAYS[day] ELSE None>>

\* the properties of OmerDay
\* variant: week computed from the day itself
week_from_day(o) == (Day(o) \div 7) + 1
week(o) == ((Day(o) - 1) \div 7) + 1
day_of_week(o) == ((Day(o) - 1) % 7) + 1
is_complete_week(o) == Day(o) % 7 = 0
days_remaining(o) == 49 - Day(o)

\* get_week_description(in_hebrew = True); the Hebrew words are written in Latin
\* letters: "shavua echad" one week, "shavuot" weeks, "yom echad" one day,
\* "yamim" days, "shehem" which are, "ve" and
get_week_description(o) ==
    IF Day(o) < 7 THEN EmptyStr
    ELSE LET weeks == IF Day(o) % 7 = 0 THEN week(o) - 1 ELSE week(o)
             days == IF Day(o) % 7 # 0 THEN day_of_week(o) ELSE 7
             week_text == IF weeks = 1 THEN <<"shavua echad">> ELSE <<weeks, "shavuot">>
             day_text == IF days = 1 THEN <<"yom echad">>
                         ELSE IF days > 1 THEN <<days, "yamim">>
                         ELSE EmptyStr
         IN  IF day_text # EmptyStr THEN <<"shehem", week_text, "ve", day_text>>
             ELSE <<"shehem", week_text>>

\* get_week_description(in_hebrew = False)
get_week_description_english(o) ==
    IF Day(o) < 7 THEN EmptyStr
    ELSE LET weeks == IF Day(o) % 7 = 0 THEN week(o) - 1 ELSE week(o)
             days == IF Day(o) % 7 # 0 THEN day_of_week(o) ELSE 7
             week_text == IF weeks = 1 THEN "week" ELSE "weeks"
             day_text == IF days = 1 THEN "day" ELSE "days"
         IN  IF days > 0 THEN <<"which are", weeks, week_text, "and", days, day_text>>
             ELSE <<"which are", weeks, week_text>>

\* date.isoformat()
isoformat(date) == <<"isoformat", date>>

\* to_dict: the values of the dict in the order of its keys
to_dict(o) ==
    <<"dict",
      Day(o),
      Text(o),
      Transliteration(o),
      EnglishTranslation(o),
      week(o),
      day_of_week(o),
      is_complete_week(o),
      days_remaining(o),
      HebrewDate(o),
      IF GregorianDate(o) # NoDate THEN isoformat(GregorianDate(o)) ELSE None,
      IF SefirahInfo(o) # None
        THEN <<"dict", SefirahInfo(o)[1], SefirahInfo(o)[2], SefirahInfo(o)[3]>> ELSE None,
      IsSpecialDay(o),
      SpecialDayInfo(o),
      get_week_description(o)>>

(***************************************************************************)
(* config.py: the enums and the fields of OmerConfig that core.py reads.   *)
(* An OmerConfig is <<"OmerConfig", output_format, compact_output,         *)
(* date_format, gregorian_format>>.                                        *)
(***************************************************************************)
OutputFormat == {"HEBREW", "TRANSLITERATED", "BOTH", "ENGLISH"}
DateFormat == {"HEBREW_ONLY", "GREGORIAN_ONLY", "BOTH", "ISO"}

\* Enum.NAME: the member, or AttributeError when the enum has no such member
Member(enum, name) ==
    IF name \in enum THEN name ELSE Raise("AttributeError", StrV(name, <<>>))

OmerConfig(output_format, compact_output, date_format, gregorian_format) ==
    <<"OmerConfig", output_format, compact_output, date_format, gregorian_format>>
output_format(config) == config[2]
compact_output(config) == config[3]
date_format(config) == config[4]
gregorian_format(config) == config[5]

\* OmerTradition, by value
OmerTradition == {"sefardi", "ashkenazi", "chassidic"}

(***************************************************************************)
(* core.py: the text methods of OmerDay.  A returned dict is               *)
(* <<"shared", id, items>> when it is a static object of data.py itself    *)
(* and <<"copy", items>> when it is a new dict.                            *)
(***************************************************************************)
Shared(id, items) == <<"shared", id, items>>
Copy(items) == <<"copy", items>>
Items(d) == IF Kind(d) = "shared" THEN d[3] ELSE d[2]

HEBREW_MONTH_NAMES_HEBREW == {NISAN, IYYAR, SIVAN}

\* date.strftime(format)
strftime(date, format) == <<"strftime", format, date>>

\* separator.join(parts)
RECURSIVE join(_, _)
join(separator, parts) ==
    IF parts = <<>> THEN EmptyStr
    ELSE IF Len(parts) = 1 THEN <<parts[1]>>
    ELSE <<parts[1], separator>> \o join(separator, Tail(parts))

_format_date_info(o, config) ==
    LET hebrew_part ==
            IF date_format(config) \in {"HEBREW_ONLY", "BOTH"} /\ HebrewDate(o) # None
              THEN LET day == HebrewDate(o)[1]
                       month == HebrewDate(o)[2]
                       hebrew_month == IF month \in HEBREW_MONTH_NAMES_HEBREW
                                         THEN <<"HEBREW_MONTH_NAMES_HEBREW", month>>
                                         ELSE month
                   IN  << <<day, " ", hebrew_month>> >>
              ELSE <<>>
        gregorian_part ==
            IF date_format(config) \in {"GREGORIAN_ONLY", "BOTH"} /\ GregorianDate(o) # NoDate
              THEN IF date_format(config) = "ISO"
                     THEN <<strftime(GregorianDate(o), "%Y-%m-%d")>>
                     ELSE <<strftime(GregorianDate(o), gregorian_format(config))>>
              ELSE <<>>
    IN  join(" / ", hebrew_part \o gregorian_part)

\* FORMAT_TEMPLATES: the fields each template names, in order
FORMAT_TEMPLATES ==
    << <<"simple", <<"hebrew_text">>>>,
       <<"with_transliteration", <<"hebrew_text", "transliteration">>>>,
       <<"with_english", <<"hebrew_text", "english_translation">>>>,
       <<"full", <<"hebrew_text", "transliteration", "english_translation">>>>,
       <<"compact", <<"day_number", "hebrew_text">>>>,
       <<"detailed", <<"day_number", "hebrew_text", "transliteration",
                       "english_translation", "sefirah_info">>>> >>

\* SefiraInfo.format_sefirah_text(True, True)
format_sefirah_text(info) == <<info[3], " | ", info[3], " | ", info[3]>>

\* format_output: the comparison with OutputFormat.DETAILED comes first
format_output(o, config, tradition) ==
    LET DETAILED == Member(OutputFormat, "DETAILED")
    IN  IF Raises(DETAILED) THEN DETAILED
        ELSE LET template ==
                     IF output_format(config) = DETAILED
                       THEN Lookup(FORMAT_TEMPLATES, "detailed", Lookup(FORMAT_TEMPLATES, "full", <<>>))
                     ELSE IF compact_output(config)
                       THEN Lookup(FORMAT_TEMPLATES, "compact", Lookup(FORMAT_TEMPLATES, "simple", <<>>))
                     ELSE Lookup(FORMAT_TEMPLATES, "full", <<>>)
                 format_vars ==
                     << <<"day_number", Day(o)>>,
                        <<"hebrew_text", Text(o)>>,
                        <<"transliteration", Transliteration(o)>>,
                        <<"english_translation", EnglishTranslation(o)>>,
                        <<"sefirah_info", IF SefirahInfo(o) # None
                                            THEN format_sefirah_text(SefirahInfo(o)) ELSE EmptyStr>>,
                        <<"week_description", get_week_description(o)>>,
                        <<"special_day_info", IF IsSpecialDay(o) THEN SpecialDayInfo(o)[2] ELSE EmptyStr>>,
                        <<"date_info", _format_date_info(o, config)>> >>
                     \o (IF /\ tradition # "ashkenazi"
                            /\ tradition \in Keys(CUSTOM_TEXTS)
                            /\ Lookup(Lookup(CUSTOM_TEXTS, tradition, <<>>), "omer_intro", EmptyStr)
                                 # EmptyStr
                          THEN << <<"tradition_intro",
                                    Lookup(Lookup(CUSTOM_TEXTS, tradition, <<>>), "omer_intro", EmptyStr)>> >>
                          ELSE <<>>)
             IN  StrV(template, [i \in 1..Len(template) |-> Lookup(format_vars, template[i], EmptyStr)])

get_blessing_text(tradition) ==
    LET blessing == OMER_BLESSING
        intro == IF tradition \in Keys(CUSTOM_TEXTS)
                   THEN Lookup(Lookup(CUSTOM_TEXTS, tradition, <<>>), "omer_intro", EmptyStr)
                   ELSE EmptyStr
        custom == Lookup(CUSTOM_TEXTS, tradition, <<>>)
    IN  IF intro # EmptyStr
          THEN Copy(blessing \o
                    << <<"intro", intro>>,
                       <<"intro_transliteration", Lookup(custom, "omer_intro_transliteration", EmptyStr)>>,
                       <<"intro_english", Lookup(custom, "omer_intro_english", EmptyStr)>> >>)
          ELSE Copy(blessing)

\* variant: get_prayer_text without .copy()
get_prayer_text_nocopy == Shared(<<"OMER_PRAYER">>, OMER_PRAYER)

get_prayer_text == Copy(OMER_PRAYER)

get_kavana_text ==
    IF "general" \in Keys(KAVANNOT)
      THEN Shared(<<"KAVANNOT", "general">>, Lookup(KAVANNOT, "general", <<>>))
      ELSE Copy(<<>>)

get_special_day_blessing(o) ==
    IF IsSpecialDay(o) /\ Day(o) = 33
      THEN IF "lag_baomer" \in Keys(SPECIAL_PRAYERS)
             THEN Shared(<<"SPECIAL_PRAYERS", "lag_baomer">>, Lookup(SPECIAL_PRAYERS, "lag_baomer", <<>>))
             ELSE Copy(<<>>)
      ELSE None

(***************************************************************************)
(* The calendar bridge, convertdate.hebrew.from_gregorian, is outside the  *)
(* program: for a Gregorian date it raises ValueError or OverflowError or  *)
(* answers a Hebrew <<year, month index, day>>.  A Gregorian date is its   *)
(* proleptic ordinal; date.max is the last one.                            *)
(***************************************************************************)
DATE_MAX == 3652059
HebrewYears == {5783}
BridgeDays == {5, 6, 15, 16, 30}
BridgeAnswers ==
    { Raise("ValueError", StrV("bridge", <<>>)), Raise("OverflowError", StrV("bridge", <<>>)) }
    \cup { <<"hebrew", y, m, d>> : y \in HebrewYears, m \in 1..MaxBridgeMonth, d \in BridgeDays }
DateInputs == (DATE_MAX - MaxRangeLen - 1)..DATE_MAX
\* date.today() is a date the bridge converts
TodayAnswers == { a \in BridgeAnswers : ~Raises(a) }

\* str(e) of a raised exception
str(e) == e[3]

_create_omer_day(day, month, hebrew_date, gregorian_date) ==
    IF ~is_omer_period(day, month)
      THEN StrV("This date is not within the Sefirat HaOmer period.", <<>>)
      ELSE LET omer_day == calculate_omer_day(day, month)
           IN  IF Raises(omer_day) THEN str(omer_day)
               ELSE LET n == Value(omer_day)
                        o == OmerDay(n,
                                     Get(OMER_TEXTS, n, <<"Missing Omer text for day ", n, ".">>),
                                     Get(OMER_TRANSLITERATIONS, n, EmptyStr),
                                     Get(OMER_ENGLISH_TRANSLATIONS, n, EmptyStr),
                                     IF hebrew_date # None THEN hebrew_date ELSE <<day, month>>,
                                     gregorian_date)
                    IN  IF Raises(o) THEN str(o) ELSE o

\* variant: the record does not keep the Gregorian date it was asked about
_get_omer_from_gregorian_nodate(date, answer) ==
    IF Raises(answer) THEN ERR_date_error
    ELSE LET h_month == answer[3]
             h_day == answer[4]
             month_name == Get(HEBREW_MONTHS, h_month, EmptyStr)
         IN  IF month_name = EmptyStr
               THEN StrV("This date is outside the Sefirat HaOmer period.", <<>>)
               ELSE _create_omer_day(h_day, month_name, None, NoDate)

_get_omer_from_gregorian(date, answer) ==
    IF Raises(answer) THEN ERR_date_error
    ELSE LET h_month == answer[3]
             h_day == answer[4]
             month_name == Get(HEBREW_MONTHS, h_month, EmptyStr)
         IN  IF month_name = EmptyStr
               THEN StrV("This date is outside the Sefirat HaOmer period.", <<>>)
               ELSE _create_omer_day(h_day, month_name, None, date)

_get_omer_from_hebrew(day, month) ==
    LET m == capitalize(month)
    IN  IF m \notin DOMAIN HEBREW_MONTH_LENGTHS
          THEN StrV("Invalid Hebrew month. Expected Nisan, Iyyar, or Sivan.", <<>>)
        ELSE IF ~(1 <= day /\ day <= HEBREW_MONTH_LENGTHS[m])
          THEN StrV("Invalid day for {month}. Must be between 1 and {length}.",
                    <<m, HEBREW_MONTH_LENGTHS[m]>>)
        ELSE _create_omer_day(day, m, <<day, m>>, NoDate)

\* date is <<"None">>, <<"date", ordinal>>, <<"tuple", day, month>>, or a value of
\* another shape; today and answer are what date.today() and the bridge give
get_omer_text_by_date(date, today, answer) ==
    LET r == IF Kind(date) = "None" THEN _get_omer_from_gregorian(today, answer)
             ELSE IF Kind(date) = "date" THEN _get_omer_from_gregorian(date[2], answer)
             ELSE IF Kind(date) = "tuple" THEN _get_omer_from_hebrew(date[2], date[3])
             ELSE ERR_invalid_day
    IN  IF Raises(r) THEN StrV("Date error: {e}", <<str(r)>>) ELSE r

\* variant: the range check admits 50
get_omer_day_by_number_le50(day_number) ==
    IF ~(1 <= day_number /\ day_number <= 50) THEN ERR_out_of_range
    ELSE LET hebrew_date == get_hebrew_date_from_omer_day(day_number)
             r == IF Raises(hebrew_date) THEN hebrew_date
                  ELSE _create_omer_day(Value(hebrew_date)[1], Value(hebrew_date)[2], None, NoDate)
         IN  IF Raises(r) THEN StrV("Date error: {e}", <<str(r)>>) ELSE r

\* variant: the text is taken out of OMER_TEXTS (pop instead of get), so that a
\* second call for the day a caller already asked for finds none
get_omer_day_by_number_pop(day_number) ==
    IF ~(1 <= day_number /\ day_number <= 49) THEN ERR_out_of_range
    ELSE LET hebrew_date == get_hebrew_date_from_omer_day(day_number)
             r == IF Raises(hebrew_date) THEN hebrew_date
                  ELSE _create_omer_day(Value(hebrew_date)[1], Value(hebrew_date)[2], None, NoDate)
             again == /\ held # <<>>
                      /\ held[1] = "get_omer_day_by_number"
                      /\ held[2].day_number = day_number
         IN  IF Raises(r) THEN StrV("Date error: {e}", <<str(r)>>)
             ELSE IF again /\ IsOmerDay(r)
               THEN [r EXCEPT ![3] = <<"Missing Omer text for day ", day_number, ".">>]
             ELSE r

get_omer_day_by_number(day_number) ==
    IF ~(1 <= day_number /\ day_number <= 49) THEN ERR_out_of_range
    ELSE LET hebrew_date == get_hebrew_date_from_omer_day(day_number)
             r == IF Raises(hebrew_date) THEN hebrew_date
                  ELSE _create_omer_day(Value(hebrew_date)[1], Value(hebrew_date)[2], None, NoDate)
         IN  IF Raises(r) THEN StrV("Date error: {e}", <<str(r)>>) ELSE r

\* variant: the loops of get_all_omer_days leave out hebrew_date
AllDaysEntry_nodate(day, month) ==
    LET omer_day == calculate_omer_day(day, month)
    IN  IF Raises(omer_day) THEN omer_day
        ELSE LET n == Value(omer_day)
             IN  OmerDay(n,
                         Get(OMER_TEXTS, n, <<"Missing text for day ", n>>),
                         Get(OMER_TRANSLITERATIONS, n, EmptyStr),
                         Get(OMER_ENGLISH_TRANSLATIONS, n, EmptyStr),
                         None,
                         NoDate)

\* one iteration of the three loops of get_all_omer_days
AllDaysEntry(day, month) ==
    LET omer_day == calculate_omer_day(day, month)
    IN  IF Raises(omer_day) THEN omer_day
        ELSE LET n == Value(omer_day)
             IN  OmerDay(n,
                         Get(OMER_TEXTS, n, <<"Missing text for day ", n>>),
                         Get(OMER_TRANSLITERATIONS, n, EmptyStr),
                         Get(OMER_ENGLISH_TRANSLATIONS, n, EmptyStr),
                         <<day, month>>,
                         NoDate)

\* [f(day, month) for day in range(a, b)]
LoopOver(a, b, month) == [i \in 1..(b - a) |-> AllDaysEntry(a + i - 1, month)]

\* hebrew_year is NoYear for None; answer is the bridge's answer for today
NoYear == 0

\* variant: the Iyyar loop runs over range(1, 31)
get_all_omer_days_iyyar30(hebrew_year, answer) ==
    IF hebrew_year = NoYear /\ Raises(answer) THEN answer
    ELSE LET omer_days == LoopOver(16, 31, NISAN) \o LoopOver(1, 31, IYYAR) \o LoopOver(1, 6, SIVAN)
         IN  IF \E i \in 1..Len(omer_days) : Raises(omer_days[i])
               THEN omer_days[CHOOSE i \in 1..Len(omer_days) :
                                /\ Raises(omer_days[i])
                                /\ \A j \in 1..(i - 1) : ~Raises(omer_days[j])]
               ELSE ListV(omer_days)

get_all_omer_days(hebrew_year, answer) ==
    IF hebrew_year = NoYear /\ Raises(answer) THEN answer
    ELSE LET omer_days == LoopOver(16, 31, NISAN) \o LoopOver(1, 30, IYYAR) \o LoopOver(1, 6, SIVAN)
         IN  IF \E i \in 1..Len(omer_days) : Raises(omer_days[i])
               THEN omer_days[CHOOSE i \in 1..Len(omer_days) :
                                /\ Raises(omer_days[i])
                                /\ \A j \in 1..(i - 1) : ~Raises(omer_days[j])]
               ELSE ListV(omer_days)

Min(a, b) == IF a <= b THEN a ELSE b
InWeek(start_day, end_day, o) == start_day <= Day(o) /\ Day(o) <= end_day

\* variant: the week starts one day early
get_omer_days_by_week_early(wk, hebrew_year, answer) ==
    IF ~(1 <= wk /\ wk <= 7)
      THEN Raise("ValueError", StrV("Week must be between 1 and 7, got {week}", <<wk>>))
      ELSE LET all_days == get_all_omer_days(hebrew_year, answer)
               start_day == (wk - 1) * 7
               end_day == Min(wk * 7, 49)
           IN  IF Raises(all_days) THEN all_days
               ELSE ListV(SelectSeq(Value(all_days), LAMBDA o : InWeek(start_day, end_day, o)))

get_omer_days_by_week(wk, hebrew_year, answer) ==
    IF ~(1 <= wk /\ wk <= 7)
      THEN Raise("ValueError", StrV("Week must be between 1 and 7, got {week}", <<wk>>))
      ELSE LET all_days == get_all_omer_days(hebrew_year, answer)
               start_day == (wk - 1) * 7 + 1
               end_day == Min(wk * 7, 49)
           IN  IF Raises(all_days) THEN all_days
               ELSE ListV(SelectSeq(Value(all_days), LAMBDA o : InWeek(start_day, end_day, o)))

RECURSIVE SpecialLoop(_)
SpecialLoop(keys) ==
    IF keys = <<>> THEN <<>>
    ELSE LET omer_day == get_omer_day_by_number(Head(keys))
         IN  (IF IsOmerDay(omer_day) THEN <<omer_day>> ELSE <<>>) \o SpecialLoop(Tail(keys))

find_special_omer_days == ListV(SpecialLoop(SPECIAL_DAYS_keys))

\* the while loop of find_omer_day_by_gregorian_range; cal gives the bridge's
\* answer for each date of the range; adding a day to date.max overflows
RECURSIVE RangeLoop(_, _, _, _)
RangeLoop(current_date, end_date, cal, omer_days) ==
    IF ~(current_date <= end_date) THEN ListV(omer_days)
    ELSE LET r == get_omer_text_by_date(<<"date", current_date>>, current_date, cal[current_date])
             acc == IF IsOmerDay(r) THEN Append(omer_days, r) ELSE omer_days
         IN  IF current_date + 1 > DATE_MAX
               THEN Raise("OverflowError", StrV("date value out of range", <<>>))
               ELSE RangeLoop(current_date + 1, end_date, cal, acc)

find_omer_day_by_gregorian_range(start_date, end_date, cal) ==
    RangeLoop(start_date, end_date, cal, <<>>)

\* the dict of get_omer_summary_by_sefirah: the values of "week", "sefirah", "days",
\* "total_days" in that order
SummaryDict(sefirah_week, week_sefirah, week_days) ==
    IF Raises(week_days) THEN week_days
    ELSE <<"dict",
           sefirah_week,
           week_sefirah,
           [i \in 1..Len(Value(week_days)) |-> to_dict(Value(week_days)[i])],
           Len(Value(week_days))>>

\* variant: the attribute of the following week
get_omer_summary_by_sefirah_next(sefirah_week, answer) ==
    IF ~(1 <= sefirah_week /\ sefirah_week <= 7)
      THEN Raise("ValueError", StrV("Sefirah week must be between 1 and 7", <<>>))
      ELSE SummaryDict(sefirah_week,
                       Get(SEFIROT_ATTRIBUTES, sefirah_week + 1, <<>>),
                       get_omer_days_by_week(sefirah_week, NoYear, answer))

\* answer is the bridge's answer for today
get_omer_summary_by_sefirah(sefirah_week, answer) ==
    IF ~(1 <= sefirah_week /\ sefirah_week <= 7)
      THEN Raise("ValueError", StrV("Sefirah week must be between 1 and 7", <<>>))
      ELSE SummaryDict(sefirah_week,
                       Get(SEFIROT_ATTRIBUTES, sefirah_week, <<>>),
                       get_omer_days_by_week(sefirah_week, NoYear, answer))

\* date.weekday() of a proleptic ordinal: 0 is Monday
weekday(date) == (date + 6) % 7

get_weekday_info(date) ==
    LET hebrew_weekday == (weekday(date) + 1) % 7
    IN  IF hebrew_weekday \in DOMAIN HEBREW_WEEKDAYS
          THEN Shared(<<"HEBREW_WEEKDAYS", hebrew_weekday>>, HEBREW_WEEKDAYS[hebrew_weekday])
          ELSE Copy(<<>>)

\* today is date.today() and answer the bridge's answer for it.  The values of the dict
\* literal are evaluated in order: format_output first, and SefiraInfo has no
\* to_dict method
\* the dict get_current_omer_status builds from r, the answer of
\* get_omer_text_by_date(today)
StatusDict(r, today, config, tradition) ==
    IF IsOmerDay(r)
      THEN LET formatted_text == format_output(r, config, tradition)
               sefirah_info ==
                   IF SefirahInfo(r) # None
                     THEN Raise("AttributeError",
                                StrV("'SefiraInfo' object has no attribute 'to_dict'", <<>>))
                     ELSE None
               special_blessing == get_special_day_blessing(r)
           IN  IF Raises(formatted_text) THEN formatted_text
               ELSE IF Raises(sefirah_info) THEN sefirah_info
               ELSE Copy(
                    << <<"is_omer_period", TRUE>>,
                       <<"day", Day(r)>>,
                       <<"text", Text(r)>>,
                       <<"transliteration", Transliteration(r)>>,
                       <<"english_translation", EnglishTranslation(r)>>,
                       <<"formatted_text", formatted_text>>,
                       <<"week", week(r)>>,
                       <<"day_of_week", day_of_week(r)>>,
                       <<"is_complete_week", is_complete_week(r)>>,
                       <<"hebrew_date", HebrewDate(r)>>,
                       <<"gregorian_date",
                         IF GregorianDate(r) # NoDate THEN GregorianDate(r) ELSE today>>,
                       <<"days_remaining", days_remaining(r)>>,
                       <<"week_description", get_week_description(r)>>,
                       <<"sefirah_info", sefirah_info>>,
                       <<"is_special_day", IsSpecialDay(r)>>,
                       <<"special_day_info", SpecialDayInfo(r)>>,
                       <<"blessing", get_blessing_text(tradition)>>,
                       <<"prayer", get_prayer_text>>,
                       <<"kavana", get_kavana_text>>,
                       <<"weekday_info", get_weekday_info(today)>> >>
                    \o (IF special_blessing # None /\ Items(special_blessing) # <<>>
                          THEN << <<"special_blessing", special_blessing>> >> ELSE <<>>))
      ELSE Copy(<< <<"is_omer_period", FALSE>>, <<"message", r>> >>)

get_current_omer_status(today, answer, config, tradition) ==
    StatusDict(get_omer_text_by_date(<<"date", today>>, NoDate, answer), today, config, tradition)

JSON_FORMAT == <<106, 115, 111, 110>>     \* "json"
TEXT_FORMAT == <<116, 101, 120, 116>>     \* "text"

\* the lines of the text export: each day's format_output and a rule of 50 dashes;
\* the first format_output that raises ends the loop
RECURSIVE ExportLines(_, _)
ExportLines(all_days, config) ==
    IF all_days = <<>> THEN <<>>
    ELSE LET line == format_output(Head(all_days), config, "ashkenazi")
             rest == ExportLines(Tail(all_days), config)
         IN  IF Raises(line) THEN line
             ELSE IF Raises(rest) THEN rest
             ELSE <<line, <<"-", 50>>>> \o rest

\* what export_omer_calendar makes of all_days; format is format_type.lower()
ExportOf(all_days, hebrew_year, format, config) ==
    IF Raises(all_days) THEN all_days
    ELSE IF format = JSON_FORMAT
      THEN Copy(
           << <<"hebrew_year", IF hebrew_year = NoYear THEN None ELSE hebrew_year>>,
              <<"total_days", Len(Value(all_days))>>,
              <<"days", [i \in 1..Len(Value(all_days)) |-> to_dict(Value(all_days)[i])]>>,
              <<"special_days",
                LET special == SelectSeq(Value(all_days), IsSpecialDay)
                IN  [i \in 1..Len(special) |-> to_dict(special[i])]>>,
              <<"sefirot_attributes",
                Shared(<<"SEFIROT_ATTRIBUTES">>,
                       Obj(<<"SEFIROT_ATTRIBUTES">>, SEFIROT_ATTRIBUTES))>> >>)
    ELSE IF format = TEXT_FORMAT
      THEN LET lines == ExportLines(Value(all_days), config)
           IN  IF Raises(lines) THEN lines ELSE StrV("lines", join("\n", lines))
    ELSE Raise("ValueError", StrV("Unsupported format type. Use 'json' or 'text'", <<>>))

\* variant: the format is compared without lower()
export_omer_calendar_nolower(hebrew_year, format_type, config, answer) ==
    ExportOf(get_all_omer_days(hebrew_year, answer), hebrew_year, format_type, config)

\* the "sefirot_attributes" of the json export is the table itself; answer is the
\* bridge's answer for today, asked by get_all_omer_days when hebrew_year is None
export_omer_calendar(hebrew_year, format_type, config, answer) ==
    ExportOf(get_all_omer_days(hebrew_year, answer), hebrew_year, lower(format_type), config)

\* the outer dict is new, the three lists in it are those of ANA_BEKOACH
get_ana_bekoach_text ==
    Copy([i \in 1..Len(ANA_BEKOACH) |->
             <<ANA_BEKOACH[i][1],
               Shared(<<"ANA_BEKOACH", ANA_BEKOACH[i][1]>>, ANA_BEKOACH[i][2])>>])

\* what validate_data_integrity appends for one day
DayErrors(day) ==
    (IF day \notin DOMAIN OMER_TEXTS
       THEN << <<"Missing Hebrew text for day ", day>> >> ELSE <<>>)
    \o (IF day \notin DOMAIN OMER_TRANSLITERATIONS
          THEN << <<"Missing transliteration for day ", day>> >> ELSE <<>>)
    \o (IF day \notin DOMAIN OMER_ENGLISH_TRANSLATIONS
          THEN << <<"Missing English translation for day ", day>> >> ELSE <<>>)
    \o (IF ~InDailySefirot(day)
          THEN << <<"Missing sefirah information for day ", day>> >> ELSE <<>>)

\* for day in range(day, 50)
RECURSIVE DaysLoop(_)
DaysLoop(day) == IF day >= 50 THEN <<>> ELSE DayErrors(day) \o DaysLoop(day + 1)

\* for week in range(week, 8)
RECURSIVE WeeksLoop(_)
WeeksLoop(wk) ==
    IF wk >= 8 THEN <<>>
    ELSE (IF wk \notin DOMAIN SEFIROT_ATTRIBUTES
            THEN << <<"Missing sefirah attributes for week ", wk>> >> ELSE <<>>)
         \o WeeksLoop(wk + 1)

validate_data_integrity == ListV(DaysLoop(1) \o WeeksLoop(1))

\* answer is the bridge's answer for today, asked by get_all_omer_days()
\* the errors validate_omer_configuration adds for all_days
ConfigurationErrors(all_days) ==
    IF Raises(all_days)
      THEN << <<"Error creating all Omer days: ", str(all_days)>> >>
    ELSE IF Len(Value(all_days)) # 49
      THEN << <<"Expected 49 days, got ", Len(Value(all_days))>> >>
    ELSE <<>>

validate_omer_configuration(answer) ==
    ListV(Value(validate_data_integrity) \o ConfigurationErrors(get_all_omer_days(NoYear, answer)))

(***************************************************************************)
(* The state machine: one action per call.  A caller makes a call, looks   *)
(* at what it returned, and goes on to the next call.                      *)
(***************************************************************************)
Idle == op = "none"
Call(o, a, r) == op' = o /\ args' = a /\ result' = r /\ UNCHANGED <<defects, written, held>>

\* no call has been made and no caller holds a value
NoCall == <<>>

Init ==
    /\ op = "none" /\ args = <<>> /\ result = <<"none">>
    /\ defects = {} /\ written = {} /\ held = NoCall

IsOmerPeriod ==
    /\ Idle
    /\ \E day \in DayInputs, month \in MonthInputs :
           Call("is_omer_period", [day |-> day, month |-> month], BoolV(is_omer_period(day, month)))

CalculateOmerDay ==
    /\ Idle
    /\ \E day \in DayInputs, month \in MonthInputs :
           Call("calculate_omer_day", [day |-> day, month |-> month], calculate_omer_day(day, month))

GetHebrewDateFromOmerDay ==
    /\ Idle
    /\ \E omer_day \in OrdinalInputs :
           Call("get_hebrew_date_from_omer_day", [omer_day |-> omer_day],
                get_hebrew_date_from_omer_day(omer_day))

TestTexts == {EmptyStr, <<"test">>}

NewOmerDay ==
    /\ Idle
    /\ \E day \in OrdinalInputs, text \in TestTexts :
           Call("OmerDay", [day |-> day, text |-> text],
                OmerDay(day, text, EmptyStr, EmptyStr, None, NoDate))

GetOmerTextByHebrewDate ==
    /\ Idle
    /\ \E day \in DayInputs, month \in MonthInputs :
           Call("get_omer_text_by_date", [date |-> <<"tuple", day, month>>],
                get_omer_text_by_date(<<"tuple", day, month>>, NoDate, None))

GetOmerTextByGregorianDate ==
    /\ Idle
    /\ \E date \in DateInputs, answer \in BridgeAnswers :
           Call("get_omer_text_by_date", [date |-> <<"date", date>>, answer |-> answer],
                get_omer_text_by_date(<<"date", date>>, NoDate, answer))

GetOmerTextToday ==
    /\ Idle
    /\ \E today \in DateInputs, answer \in BridgeAnswers :
           Call("get_omer_text_by_date", [date |-> <<"None">>, today |-> today, answer |-> answer],
                get_omer_text_by_date(<<"None">>, today, answer))

GetOmerTextBadArgument ==
    /\ Idle
    /\ \E date \in {<<"other">>, <<"tuple3">>, <<"tuple_of_wrong_types">>} :
           Call("get_omer_text_by_date", [date |-> date],
                get_omer_text_by_date(date, NoDate, None))

GetOmerDayByNumber ==
    /\ Idle
    /\ \E day_number \in OrdinalInputs, tradition \in OmerTradition :
           Call("get_omer_day_by_number", [day_number |-> day_number, tradition |-> tradition],
                get_omer_day_by_number(day_number))

GetAllOmerDays ==
    /\ Idle
    /\ \E hebrew_year \in {NoYear} \cup HebrewYears, answer \in TodayAnswers :
           Call("get_all_omer_days", [hebrew_year |-> hebrew_year, answer |-> answer],
                get_all_omer_days(hebrew_year, answer))

GetOmerDaysByWeek ==
    /\ Idle
    /\ \E wk \in WeekInputs, hebrew_year \in {NoYear} \cup HebrewYears, answer \in TodayAnswers :
           Call("get_omer_days_by_week", [week |-> wk, hebrew_year |-> hebrew_year, answer |-> answer],
                get_omer_days_by_week(wk, hebrew_year, answer))

FindSpecialOmerDays ==
    /\ Idle
    /\ Call("find_special_omer_days", <<>>, find_special_omer_days)

FindOmerDayByGregorianRange ==
    /\ Idle
    /\ \E start_date \in DateInputs, end_date \in DateInputs :
           /\ end_date - start_date <= MaxRangeLen
           /\ \E cal \in [start_date..end_date -> BridgeAnswers] :
               Call("find_omer_day_by_gregorian_range",
                    [start_date |-> start_date, end_date |-> end_date, cal |-> cal],
                    find_omer_day_by_gregorian_range(start_date, end_date, cal))

GetOmerSummaryBySefirah ==
    /\ Idle
    /\ \E sefirah_week \in WeekInputs, answer \in TodayAnswers :
           Call("get_omer_summary_by_sefirah", [sefirah_week |-> sefirah_week, answer |-> answer],
                get_omer_summary_by_sefirah(sefirah_week, answer))

ValidateDataIntegrity ==
    /\ Idle
    /\ Call("validate_data_integrity", <<>>, validate_data_integrity)

ValidateOmerConfiguration ==
    /\ Idle
    /\ \E answer \in TodayAnswers :
           Call("validate_omer_configuration", [answer |-> answer],
                validate_omer_configuration(answer))

ConfigInputs ==
    { OmerConfig("HEBREW", FALSE, "HEBREW_ONLY", "%Y-%m-%d"),
      OmerConfig("BOTH", TRUE, "BOTH", "%Y-%m-%d") }

GetCurrentOmerStatus ==
    /\ Idle
    /\ \E today \in DateInputs, answer \in BridgeAnswers,
          config \in ConfigInputs, tradition \in OmerTradition :
           Call("get_current_omer_status",
                [today |-> today, answer |-> answer, config |-> config, tradition |-> tradition],
                get_current_omer_status(today, answer, config, tradition))

FormatInputs ==
    { JSON_FORMAT, TEXT_FORMAT,
      <<74, 83, 79, 78>>,                  \* "JSON"
      <<84, 101, 120, 116>>,               \* "Text"
      <<120, 109, 108>>,                   \* "xml"
      <<>> }                               \* ""

ExportConfigs ==
    { OmerConfig("HEBREW", FALSE, "HEBREW_ONLY", "%Y-%m-%d"),
      OmerConfig("BOTH", TRUE, "BOTH", "%Y-%m-%d") }

ExportOmerCalendar ==
    /\ Idle
    /\ \E hebrew_year \in {NoYear} \cup HebrewYears, format_type \in FormatInputs,
          config \in ExportConfigs, answer \in TodayAnswers :
           Call("export_omer_calendar",
                [hebrew_year |-> hebrew_year, format_type |-> format_type,
                 config |-> config, answer |-> answer],
                export_omer_calendar(hebrew_year, format_type, config, answer))

\* the methods of an OmerDay object that hand out the prayer texts
GetBlessingText ==
    /\ Idle
    /\ \E tradition \in OmerTradition :
           Call("get_blessing_text", [tradition |-> tradition], get_blessing_text(tradition))

GetPrayerText ==
    /\ Idle
    /\ Call("get_prayer_text", <<>>, get_prayer_text)

GetKavanaText ==
    /\ Idle
    /\ Call("get_kavana_text", <<>>, get_kavana_text)

GetSpecialDayBlessing ==
    /\ Idle
    /\ \E day \in {1, 18, 33} :
           Call("get_special_day_blessing", [day |-> day],
                get_special_day_blessing(OmerDay(day, EmptyStr, EmptyStr, EmptyStr, None, NoDate)))

GetAnaBekoachText ==
    /\ Idle
    /\ Call("get_ana_bekoach_text", <<>>, get_ana_bekoach_text)

\* the week description of a new OmerDay object, in Hebrew or in English
GetWeekDescription ==
    /\ Idle
    /\ \E day \in OrdinalInputs, in_hebrew \in BOOLEAN :
           LET o == OmerDay(day, <<"test">>, EmptyStr, EmptyStr, None, NoDate)
           IN  Call("get_week_description", [day |-> day, in_hebrew |-> in_hebrew],
                    IF Raises(o) THEN o
                    ELSE StrV("{week_description}",
                              IF in_hebrew THEN get_week_description(o)
                              ELSE get_week_description_english(o)))

\* the date part of format_output, for an OmerDay object with or without its dates
GregorianFormats == {"%Y-%m-%d", "%d/%m/%Y"}

FormatDateInfo ==
    /\ Idle
    /\ \E day \in {1, 16, 49}, hebrew_date \in BOOLEAN, gregorian_date \in {NoDate} \cup DateInputs,
          mode \in DateFormat, format \in GregorianFormats :
           LET h == get_hebrew_date_from_omer_day(day)
               o == OmerDay(day, EmptyStr, EmptyStr, EmptyStr,
                            IF hebrew_date THEN Value(h) ELSE None, gregorian_date)
           IN  Call("_format_date_info",
                    [hebrew_date |-> HebrewDate(o), gregorian_date |-> gregorian_date,
                     date_format |-> mode, gregorian_format |-> format],
                    StrV("{date_info}",
                         _format_date_info(o, OmerConfig("BOTH", FALSE, mode, format))))

\* the caller is done with the returned value
Return ==
    /\ op # "none"
    /\ op' = "none" /\ args' = <<>> /\ result' = <<"none">>
    /\ UNCHANGED <<defects, written, held>>

Next ==
    \/ IsOmerPeriod
    \/ CalculateOmerDay
    \/ GetHebrewDateFromOmerDay
    \/ NewOmerDay
    \/ GetOmerTextByHebrewDate
    \/ GetOmerTextByGregorianDate
    \/ GetOmerTextToday
    \/ GetOmerTextBadArgument
    \/ GetOmerDayByNumber
    \/ GetAllOmerDays
    \/ GetOmerDaysByWeek
    \/ FindSpecialOmerDays
    \/ FindOmerDayByGregorianRange
    \/ GetOmerSummaryBySefirah
    \/ ValidateDataIntegrity
    \/ ValidateOmerConfiguration
    \/ GetCurrentOmerStatus
    \/ ExportOmerCalendar
    \/ GetBlessingText
    \/ GetPrayerText
    \/ GetKavanaText
    \/ GetSpecialDayBlessing
    \/ GetAnaBekoachText
    \/ GetWeekDescription
    \/ FormatDateInfo
    \/ Return

Spec == Init /\ [][Next]_vars

(***************************************************************************)
(* The same queries over tables with one defect: a per-day table lacks a   *)
(* key, or holds an empty text for it.                                     *)
(***************************************************************************)
MissingInputs == {1, 20, 49}
TextTables == {"OMER_TEXTS", "OMER_TRANSLITERATIONS", "OMER_ENGLISH_TRANSLATIONS"}
DefectInputs ==
    { <<table, n, kind>> : table \in TextTables, n \in MissingInputs, kind \in {"absent", "empty"} }
      \cup { <<"DAILY_SEFIROT", n, "absent">> : n \in MissingInputs }

InitMissing ==
    /\ op = "none" /\ args = <<>> /\ result = <<"none">>
    /\ defects \in { {d} : d \in DefectInputs }
    /\ written = {} /\ held = NoCall

NextMissing ==
    \/ NewOmerDay
    \/ GetOmerTextByHebrewDate
    \/ GetOmerTextByGregorianDate
    \/ GetOmerTextToday
    \/ GetOmerDayByNumber
    \/ GetAllOmerDays
    \/ GetOmerDaysByWeek
    \/ ValidateDataIntegrity
    \/ ValidateOmerConfiguration
    \/ Return

SpecMissing == InitMissing /\ [][NextMissing]_vars

(***************************************************************************)
(* Callers that write to what a call returned to them.  A dict made by     *)
(* .copy() or built by the call is the caller's own; a dict or list that   *)
(* is an object of data.py is the table entry itself, and a write to it is *)
(* a write to the table.                                                   *)
(***************************************************************************)
\* the OmerDay objects a call returned
Returned ==
    IF result = None THEN {}
    ELSE IF IsOmerDay(result) THEN {result}
    ELSE IF Kind(result) = "list" THEN { Value(result)[i] : i \in 1..Len(Value(result)) }
    ELSE {}

\* the special days among the OmerDay objects of a list of to_dict() dicts
SpecialDicts(days) == { days[i][2] : i \in { j \in 1..Len(days) : days[j][13] } }

\* the objects of data.py that the returned value refers to
Refs ==
    IF op = "none" \/ result = None \/ Raises(result) THEN {}
    ELSE IF op \in {"get_blessing_text", "get_prayer_text", "get_kavana_text",
                     "get_special_day_blessing"}
      THEN IF Kind(result) = "shared" THEN {result[2]} ELSE {}
    ELSE IF op = "get_ana_bekoach_text"
      THEN { Items(result)[i][2][2] : i \in 1..Len(Items(result)) }
    ELSE IF op = "export_omer_calendar" /\ Kind(result) = "copy"
      THEN {Lookup(Items(result), "sefirot_attributes", <<>>)[2]}
             \cup { <<"SPECIAL_DAYS", n>> : n \in SpecialDicts(Lookup(Items(result), "days", <<>>)) }
    ELSE IF op \in {"OmerDay", "get_omer_day_by_number", "find_special_omer_days"}
      THEN { <<"SPECIAL_DAYS", Day(o)>> : o \in { x \in Returned : IsSpecialDay(x) } }
    ELSE {}

\* the caller adds an entry to every dict and list of the returned value
ModifyReturned ==
    /\ op # "none"
    /\ written' = written \cup Refs
    /\ UNCHANGED <<op, args, result, defects, held>>

NextShared ==
    \/ GetBlessingText
    \/ GetPrayerText
    \/ GetKavanaText
    \/ GetSpecialDayBlessing
    \/ GetAnaBekoachText
    \/ GetOmerDayByNumber
    \/ FindSpecialOmerDays
    \/ ExportOmerCalendar
    \/ ModifyReturned
    \/ Return

SpecShared == Init /\ [][NextShared]_vars

(***************************************************************************)
(* Repeated queries: a caller keeps what one call returned to it and goes  *)
(* on calling.                                                             *)
(***************************************************************************)
Keep ==
    /\ op # "none"
    /\ held = NoCall
    /\ held' = <<op, args, result>>
    /\ UNCHANGED <<op, args, result, defects, written>>

NextRepeat ==
    \/ GetOmerDayByNumber
    \/ FindSpecialOmerDays
    \/ GetBlessingText
    \/ GetKavanaText
    \/ GetSpecialDayBlessing
    \/ Keep
    \/ Return

SpecRepeat == Init /\ [][NextRepeat]_vars

(***************************************************************************)
(* Vocabulary of the properties.                                           *)
(***************************************************************************)
\* s and t are the same name up to the case of their letters
SameLetters(s, t) ==
    /\ Len(s) = Len(t)
    /\ \A i \in 1..Len(s) : Lower(s[i]) = Lower(t[i])

NamesOmerMonth(s) == \E m \in OmerMonth : SameLetters(s, m)
MonthNamed(s) == CHOOSE m \in OmerMonth : SameLetters(s, m)

\* the part of each month that lies inside the Omer period
InSubRange(day, m) ==
    \/ m = NISAN /\ 16 <= day /\ day <= 30
    \/ m = IYYAR /\ 1 <= day /\ day <= 29
    \/ m = SIVAN /\ 1 <= day /\ day <= 5

InPeriod(day, month) == NamesOmerMonth(month) /\ InSubRange(day, MonthNamed(month))

\* the full calendar length of each month
FullLength(m) == IF m = IYYAR THEN 29 ELSE 30

QueryOps == {"get_omer_text_by_date", "get_omer_day_by_number", "get_all_omer_days",
             "get_omer_days_by_week", "find_special_omer_days",
             "find_omer_day_by_gregorian_range"}

\* C1: for every ordinal o in 1..49, get_hebrew_date_from_omer_day(o) returns a
\* (day, month) that calculate_omer_day maps back to o.
C1_RoundTrip ==
    (op = "get_hebrew_date_from_omer_day" /\ args.omer_day \in 1..49) =>
        /\ Kind(result) = "tuple"
        /\ calculate_omer_day(Value(result)[1], Value(result)[2]) = IntV(args.omer_day)

C1_Witness ==
    /\ op = "get_hebrew_date_from_omer_day"
    /\ args.omer_day = 44
    /\ result = TupleV(<<29, IYYAR>>)

\* C2: is_omer_period(day, month) is true exactly when the month names Nisan, Iyyar
\* or Sivan up to letter case and the day lies in that month's Omer sub-range; it is
\* false for 15 Nisan, 31 Nisan, 30 Iyyar, 6 Sivan and for any other month name.
C2_PeriodMembership ==
    op = "is_omer_period" =>
        /\ Value(result) = InPeriod(args.day, args.month)
        /\ (args.day = 15 /\ args.month = NISAN) => Value(result) = FALSE
        /\ (args.day = 31 /\ args.month = NISAN) => Value(result) = FALSE
        /\ (args.day = 30 /\ args.month = IYYAR) => Value(result) = FALSE
        /\ (args.day = 6 /\ args.month = SIVAN) => Value(result) = FALSE
        /\ ~NamesOmerMonth(args.month) => Value(result) = FALSE

C2_Witness ==
    /\ op = "is_omer_period"
    /\ args.day = 29
    /\ args.month = <<105, 89, 89, 65, 82>>
    /\ result = BoolV(TRUE)

\* C3: for every (day, month) inside the Omer period calculate_omer_day returns
\* day - 15 for Nisan, day + 15 for Iyyar and day + 44 for Sivan, a number in 1..49;
\* 16 Nisan, 30 Nisan, 1 Iyyar, 29 Iyyar, 1 Sivan, 5 Sivan give 1, 15, 16, 44, 45, 49.
C3_Expected(day, m) ==
    IF m = NISAN THEN day - 15 ELSE IF m = IYYAR THEN day + 15 ELSE day + 44

C3_Boundary(day, m, n) ==
    (args.day = day /\ args.month = m) => result = IntV(n)

C3_OrdinalFormula ==
    (op = "calculate_omer_day" /\ is_omer_period(args.day, args.month)) =>
        /\ result = IntV(C3_Expected(args.day, MonthNamed(args.month)))
        /\ Value(result) \in 1..49
        /\ C3_Boundary(16, NISAN, 1)
        /\ C3_Boundary(30, NISAN, 15)
        /\ C3_Boundary(1, IYYAR, 16)
        /\ C3_Boundary(29, IYYAR, 44)
        /\ C3_Boundary(1, SIVAN, 45)
        /\ C3_Boundary(5, SIVAN, 49)

C3_Witness ==
    /\ op = "calculate_omer_day"
    /\ args.day = 29
    /\ args.month = IYYAR
    /\ result = IntV(44)

\* C4: calculate_omer_day fails whenever is_omer_period is false: for Nisan, Iyyar
\* or Sivan and a day of the month outside the month's Omer sub-range (15 Nisan,
\* 30 Iyyar, 6 Sivan) it raises and returns no ordinal.
C4_FailsOutsidePeriod ==
    ( /\ op = "calculate_omer_day"
      /\ NamesOmerMonth(args.month)
      /\ args.day \in 1..30
      /\ ~is_omer_period(args.day, args.month) ) =>
        Raises(result)

\* C5: calculate_omer_day with a month name other than Nisan, Iyyar, Sivan (up to
\* letter case) raises the invalid-month error for any day and returns no number.
C5_InvalidMonthRaises ==
    (op = "calculate_omer_day" /\ ~NamesOmerMonth(args.month)) =>
        /\ Raises(result)
        /\ result[2] = "ValueError"
        /\ str(result)[2] = "Invalid Hebrew month for Omer calculation: {month}"

C5_Witness ==
    /\ op = "calculate_omer_day"
    /\ args.day = 1
    /\ args.month = <<84, 105, 115, 104, 114, 101, 105>>
    /\ Raises(result)

\* C6: get_hebrew_date_from_omer_day(o) returns (o + 15, Nisan) for 1 <= o <= 15,
\* (o - 15, Iyyar) for 16 <= o <= 44 and (o - 44, Sivan) for 45 <= o <= 49, a date
\* inside the Omer period; for every o outside 1..49 it raises the range error and
\* returns no date.
C6_HebrewDateOfOrdinal ==
    op = "get_hebrew_date_from_omer_day" =>
        LET o == args.omer_day
        IN  /\ (1 <= o /\ o <= 15) => result = TupleV(<<o + 15, NISAN>>)
            /\ (16 <= o /\ o <= 44) => result = TupleV(<<o - 15, IYYAR>>)
            /\ (45 <= o /\ o <= 49) => result = TupleV(<<o - 44, SIVAN>>)
            /\ o \in 1..49 => InPeriod(Value(result)[1], Value(result)[2])
            /\ o \notin 1..49 =>
                   /\ Raises(result)
                   /\ result[2] = "ValueError"
                   /\ str(result) = ERR_out_of_range

C6_Witness ==
    /\ op = "get_hebrew_date_from_omer_day"
    /\ args.omer_day = 15
    /\ result = TupleV(<<30, NISAN>>)

\* C7: for every (day, month) inside the Omer period, get_hebrew_date_from_omer_day
\* applied to calculate_omer_day(day, month) gives back day and the month named
\* (the same (day, month) when the month is spelled Nisan, Iyyar or Sivan), so the
\* 49 dates of the period map one-to-one onto 1..49.
C7_InverseRoundTrip ==
    (op = "calculate_omer_day" /\ InPeriod(args.day, args.month)) =>
        /\ Kind(result) = "int"
        /\ Value(result) \in 1..49
        /\ get_hebrew_date_from_omer_day(Value(result))
               = TupleV(<<args.day, MonthNamed(args.month)>>)
        /\ args.month \in OmerMonth =>
               get_hebrew_date_from_omer_day(Value(result)) = TupleV(<<args.day, args.month>>)

C7_Witness ==
    /\ op = "calculate_omer_day"
    /\ args.day = 30
    /\ args.month = NISAN
    /\ result = IntV(15)

\* C8: get_omer_text_by_date with a (day, month) tuple fails in three ways that
\* partition the failing inputs: invalid month exactly when the name is not Nisan,
\* Iyyar or Sivan up to letter case; otherwise invalid day exactly when the day is
\* outside 1..(30, 29, 30); otherwise not in period exactly when the date is outside
\* the Omer sub-range; in every other case it returns an OmerDay whose day is
\* calculate_omer_day(day, month).
IsInvalidMonth(r) ==
    Kind(r) = "str" /\ r[2] = "Invalid Hebrew month. Expected Nisan, Iyyar, or Sivan."
IsInvalidDay(r) ==
    Kind(r) = "str" /\ r[2] = "Invalid day for {month}. Must be between 1 and {length}."
IsNotInPeriod(r) ==
    Kind(r) = "str" /\ r[2] = "This date is not within the Sefirat HaOmer period."

C8_ThreeFailureKinds ==
    (op = "get_omer_text_by_date" /\ Kind(args.date) = "tuple") =>
        LET day == args.date[2]
            month == args.date[3]
            okMonth == NamesOmerMonth(month)
            okDay == okMonth /\ day \in 1..FullLength(MonthNamed(month))
            okPeriod == okDay /\ InSubRange(day, MonthNamed(month))
        IN  /\ IsInvalidMonth(result) <=> ~okMonth
            /\ IsInvalidDay(result) <=> (okMonth /\ ~okDay)
            /\ IsNotInPeriod(result) <=> (okDay /\ ~okPeriod)
            /\ IsOmerDay(result) <=> okPeriod
            /\ okPeriod => IntV(Day(result)) = calculate_omer_day(day, month)

C8_Witness ==
    /\ op = "get_omer_text_by_date"
    /\ Kind(args.date) = "tuple"
    /\ args.date[2] = 30
    /\ args.date[3] = IYYAR
    /\ IsInvalidDay(result)

\* C9: constructing an OmerDay with a day outside 1..49 fails, and every OmerDay
\* returned by a query (by number, by date, by week, all days, special days,
\* Gregorian range), whatever the calendar bridge answers, has its day in 1..49.
C9_OrdinalInRange ==
    /\ (op = "OmerDay" /\ args.day \notin 1..49) => Raises(result)
    /\ op = "OmerDay" => \A o \in Returned : Day(o) \in 1..49
    /\ op \in QueryOps => \A o \in Returned : Day(o) \in 1..49

C9_Witness ==
    /\ op = "find_omer_day_by_gregorian_range"
    /\ Kind(result) = "list"
    /\ Len(Value(result)) = 2
    /\ \E d \in DOMAIN args.cal : (~Raises(args.cal[d]) /\ args.cal[d][3] = 2 /\ args.cal[d][4] = 30)

\* C10: for every OmerDay with day o in 1..49: week and day_of_week lie in 1..7,
\* 7 * (week - 1) < o <= 7 * week, o = 7 * (week - 1) + day_of_week, week is
\* ((o - 1) div 7) + 1, day_of_week is ((o - 1) mod 7) + 1, is_complete_week holds
\* exactly when o is a multiple of 7, and days_remaining is 49 - o.
C10_DerivedFields ==
    \A o \in Returned :
        /\ week(o) \in 1..7
        /\ day_of_week(o) \in 1..7
        /\ week(o) = ((Day(o) - 1) \div 7) + 1
        /\ day_of_week(o) = ((Day(o) - 1) % 7) + 1
        /\ 7 * (week(o) - 1) < Day(o)
        /\ Day(o) <= 7 * week(o)
        /\ Day(o) = 7 * (week(o) - 1) + day_of_week(o)
        /\ is_complete_week(o) <=> (\E k \in 1..7 : Day(o) = 7 * k)
        /\ is_complete_week(o) <=> day_of_week(o) = 7
        /\ days_remaining(o) \in 0..48
        /\ Day(o) + days_remaining(o) = 49

C10_Witness ==
    /\ op = "get_all_omer_days"
    /\ Kind(result) = "list"
    /\ Len(Value(result)) = 49
    /\ \E i \in 1..49 : Day(Value(result)[i]) = 49 /\ is_complete_week(Value(result)[i])

FieldsButGregorian(o) == <<Day(o), Text(o), Transliteration(o), EnglishTranslation(o),
                           HebrewDate(o), SefirahInfo(o), IsSpecialDay(o), SpecialDayInfo(o)>>

\* the Gregorian date a get_omer_text_by_date call converts
QueriedDate == IF Kind(args.date) = "date" THEN args.date[2] ELSE args.today

\* C12: when the bridge converts the Gregorian date g to month index m in 1..3 and
\* day d, get_omer_text_by_date(g) and get_omer_text_by_date((d, HEBREW_MONTHS[m]))
\* are both OmerDay objects or both message strings; when both are OmerDay objects
\* they have the same day, texts, hebrew_date, sefirah_info, is_special_day and
\* special_day_info, the first has gregorian_date g and the second has none.
C12_PathsConverge ==
    (/\ op = "get_omer_text_by_date"
     /\ Kind(args.date) \in {"date", "None"}
     /\ ~Raises(args.answer)
     /\ args.answer[3] \in DOMAIN HEBREW_MONTHS) =>
        LET d == args.answer[4]
            m == HEBREW_MONTHS[args.answer[3]]
            byTuple == get_omer_text_by_date(<<"tuple", d, m>>, NoDate, None)
        IN  /\ ~Raises(result) /\ ~Raises(byTuple)
            /\ IsOmerDay(result) <=> IsOmerDay(byTuple)
            /\ ~IsOmerDay(result) => Kind(result) = "str" /\ Kind(byTuple) = "str"
            /\ IsOmerDay(result) =>
                /\ FieldsButGregorian(result) = FieldsButGregorian(byTuple)
                /\ GregorianDate(result) = QueriedDate
                /\ GregorianDate(byTuple) = NoDate

C12_Witness ==
    /\ op = "get_omer_text_by_date"
    /\ Kind(args.date) = "date"
    /\ ~Raises(args.answer)
    /\ args.answer[3] = 2 /\ args.answer[4] = 5
    /\ IsOmerDay(result)
    /\ Day(result) = 20
    /\ GregorianDate(result) = args.date[2]
    /\ IsOmerDay(get_omer_text_by_date(<<"tuple", 5, IYYAR>>, NoDate, None))

\* the bridge's answer is a failure, or a month other than Nisan, Iyyar, Sivan
BridgeFails(answer) == Raises(answer) \/ answer[3] \notin DOMAIN HEBREW_MONTHS

\* what get_omer_text_by_date gives for each day start..end, in calendar order,
\* keeping the OmerDay objects only
RangeRecords(start_date, end_date, cal) ==
    SelectSeq([i \in 1..(end_date - start_date + 1) |->
                   get_omer_text_by_date(<<"date", start_date + i - 1>>, NoDate,
                                         cal[start_date + i - 1])],
              IsOmerDay)

\* C13: a bridge failure never crashes a query: when the conversion of a Gregorian
\* date raises ValueError or OverflowError, or gives a month other than Nisan,
\* Iyyar, Sivan, get_omer_text_by_date returns a message string (no OmerDay, no
\* exception), and find_omer_day_by_gregorian_range over a range containing such a
\* date returns the list of the OmerDay objects of the other days of the range.
C13_BridgeFailureNeverCrashes ==
    /\ (/\ op = "get_omer_text_by_date"
        /\ Kind(args.date) \in {"date", "None"}
        /\ BridgeFails(args.answer)) => Kind(result) = "str"
    /\ (/\ op = "find_omer_day_by_gregorian_range"
        /\ \E g \in args.start_date..args.end_date : BridgeFails(args.cal[g])) =>
            result = ListV(RangeRecords(args.start_date, args.end_date, args.cal))

\* the day numbers of a returned list of OmerDay objects, in order
Days(list) == [i \in 1..Len(Value(list)) |-> Day(Value(list)[i])]

\* C14: for each week w in 1..7, get_omer_days_by_week(w) returns exactly 7 OmerDay
\* objects whose days are (w-1)*7+1 .. w*7 in ascending order, and the results for
\* the seven weeks together contain every day 1..49 exactly once.
C14_WeekPartition ==
    (op = "get_omer_days_by_week" /\ args.week \in 1..7) =>
        /\ Kind(result) = "list"
        /\ \A i \in 1..Len(Value(result)) : IsOmerDay(Value(result)[i])
        /\ Days(result) = [i \in 1..7 |-> (args.week - 1) * 7 + i]
        /\ LET byWeek(w) == get_omer_days_by_week(w, args.hebrew_year, args.answer)
           IN  Days(byWeek(1)) \o Days(byWeek(2)) \o Days(byWeek(3)) \o Days(byWeek(4))
                 \o Days(byWeek(5)) \o Days(byWeek(6)) \o Days(byWeek(7))
                   = [n \in 1..49 |-> n]

C14_Witness ==
    /\ op = "get_omer_days_by_week"
    /\ args.week = 7
    /\ Kind(result) = "list"
    /\ Days(result) = <<43, 44, 45, 46, 47, 48, 49>>

\* the entries of the dict get_omer_summary_by_sefirah returns
SummaryWeek(s) == s[2]
SummarySefirah(s) == s[3]
SummaryDays(s) == s[4]
SummaryTotalDays(s) == s[5]

\* C15: get_omer_days_by_week(w) and get_omer_summary_by_sefirah(w) raise
\* ValueError for every w outside 1..7 and return no days then; for w in 1..7 the
\* summary holds SEFIROT_ATTRIBUTES[w], the to_dict of the same 7 OmerDay objects
\* that get_omer_days_by_week(w) returns, and total_days 7.
C15_WeekRangeAndSummary ==
    /\ (op \in {"get_omer_days_by_week", "get_omer_summary_by_sefirah"}) =>
          LET w == IF op = "get_omer_days_by_week" THEN args.week ELSE args.sefirah_week
          IN  w \notin 1..7 => Raises(result) /\ result[2] = "ValueError"
    /\ (op = "get_omer_summary_by_sefirah" /\ args.sefirah_week \in 1..7) =>
          LET w == args.sefirah_week
              week_days == get_omer_days_by_week(w, NoYear, args.answer)
          IN  /\ Kind(result) = "dict"
              /\ SummaryWeek(result) = w
              /\ SummarySefirah(result) = SEFIROT_ATTRIBUTES[w]
              /\ Kind(week_days) = "list"
              /\ Len(SummaryDays(result)) = 7
              /\ \A i \in 1..7 : SummaryDays(result)[i] = to_dict(Value(week_days)[i])
              /\ [i \in 1..7 |-> SummaryDays(result)[i][2]] = Days(week_days)
              /\ SummaryTotalDays(result) = 7

C15_Witness ==
    /\ op = "get_omer_summary_by_sefirah"
    /\ args.sefirah_week = 5
    /\ Kind(result) = "dict"
    /\ SummarySefirah(result) = "Hod"
    /\ SummaryTotalDays(result) = 7
    /\ SummaryDays(result)[5][2] = 33


\* C16: get_all_omer_days(hebrew_year), for a year or for None, returns exactly 49
\* OmerDay objects, the i-th with day i and hebrew_date
\* get_hebrew_date_from_omer_day(i); the list is the same whatever the year
\* argument is.
C16_AllDays ==
    op = "get_all_omer_days" =>
        /\ Kind(result) = "list"
        /\ Len(Value(result)) = 49
        /\ \A i \in 1..49 :
               /\ IsOmerDay(Value(result)[i])
               /\ Day(Value(result)[i]) = i
               /\ TupleV(HebrewDate(Value(result)[i])) = get_hebrew_date_from_omer_day(i)
        /\ \A hebrew_year \in {NoYear} \cup HebrewYears, answer \in TodayAnswers :
               get_all_omer_days(hebrew_year, answer) = result

C16_Witness ==
    /\ op = "get_all_omer_days"
    /\ args.hebrew_year \in HebrewYears
    /\ Kind(result) = "list"
    /\ Len(Value(result)) = 49
    /\ HebrewDate(Value(result)[49]) = <<5, SIVAN>>

\* C17: find_special_omer_days() returns exactly the OmerDay objects of
\* get_all_omer_days() whose day is a key of SPECIAL_DAYS, in ascending order of
\* day: the days 18 then 33, each with is_special_day set and a non-empty name and
\* description.
C17_SpecialDaysAscending ==
    op = "find_special_omer_days" =>
        LET all_days == Value(get_all_omer_days(5783, None))
        IN  /\ Kind(result) = "list"
            /\ Value(result) = SelectSeq(all_days, LAMBDA o : Day(o) \in DOMAIN SPECIAL_DAYS)
            /\ Days(result) = <<18, 33>>
            /\ \A i \in 1..Len(Value(result)) :
                   /\ IsSpecialDay(Value(result)[i])
                   /\ SpecialDayInfo(Value(result)[i]) # None
                   /\ SpecialDayInfo(Value(result)[i])[1] # ""
                   /\ SpecialDayInfo(Value(result)[i])[2] # ""

\* the week and the day attribute of an OmerDay's sefirah_info
WeekSefirah(o) == SefirahInfo(o)[1]
DaySefirah(o) == SefirahInfo(o)[2]

\* C18: every OmerDay the program makes, for every day 1..49, has as week_sefirah
\* the entry of SEFIROT_ATTRIBUTES at its week and as day_sefirah the entry at its
\* day_of_week, whatever its other fields are; day 1 gives (Chesed, Chesed) and
\* day 33 gives (Hod, Hod).
C18_SefirahDerivation ==
    \A o \in Returned :
        /\ SefirahInfo(o) # None
        /\ WeekSefirah(o) = SEFIROT_ATTRIBUTES[week(o)]
        /\ DaySefirah(o) = SEFIROT_ATTRIBUTES[day_of_week(o)]
        /\ SefirahInfo(o)[3] = <<DaySefirah(o), "within", WeekSefirah(o)>>
        /\ Day(o) = 1 => WeekSefirah(o) = "Chesed" /\ DaySefirah(o) = "Chesed"
        /\ Day(o) = 33 => WeekSefirah(o) = "Hod" /\ DaySefirah(o) = "Hod"

C18_Witness ==
    /\ op = "OmerDay"
    /\ \E o \in Returned :
           /\ Day(o) = 40
           /\ WeekSefirah(o) = "Yesod"
           /\ DaySefirah(o) = "Hod"

\* C19: find_omer_day_by_gregorian_range(start_date, end_date) returns, in calendar
\* order, exactly the OmerDay objects of the days start_date..end_date (both
\* included) for which get_omer_text_by_date gives an OmerDay, skipping every other
\* day without an exception, and the empty list when start_date > end_date.
C19_GregorianRange ==
    op = "find_omer_day_by_gregorian_range" =>
        /\ ~Raises(result)
        /\ result = ListV(RangeRecords(args.start_date, args.end_date, args.cal))
        /\ args.start_date > args.end_date => result = ListV(<<>>)

\* the call made is a get_omer_text_by_date that resolves to Omer day n: by a
\* Hebrew tuple naming its date, or by a Gregorian date the bridge converts to it
ByDateResolvesTo(n) ==
    LET hd == Value(get_hebrew_date_from_omer_day(n))
    IN  /\ op = "get_omer_text_by_date"
        /\ \/ /\ Kind(args.date) = "tuple"
              /\ args.date[2] = hd[1]
              /\ capitalize(args.date[3]) = hd[2]
           \/ /\ Kind(args.date) \in {"date", "None"}
              /\ ~BridgeFails(args.answer)
              /\ args.answer[4] = hd[1]
              /\ HEBREW_MONTHS[args.answer[3]] = hd[2]

\* C20: when OMER_TEXTS has no entry for a day N in 1..49, every query that
\* resolves to N (get_omer_day_by_number(N), get_omer_text_by_date of the matching
\* Hebrew or Gregorian date, the N-th element of get_all_omer_days and of
\* get_omer_days_by_week) still returns an OmerDay, and its text is the
\* placeholder "Missing text for day N".
C20_MissingTextPlaceholder ==
    \A n \in missing :
        /\ (op = "get_omer_day_by_number" /\ args.day_number = n) =>
               IsOmerDay(result) /\ Day(result) = n
        /\ ByDateResolvesTo(n) => IsOmerDay(result) /\ Day(result) = n
        /\ op = "get_all_omer_days" =>
               Kind(result) = "list" /\ Len(Value(result)) = 49 /\ Day(Value(result)[n]) = n
        /\ (op = "get_omer_days_by_week" /\ args.week = ((n - 1) \div 7) + 1) =>
               Kind(result) = "list" /\ Len(Value(result)) = 7
                 /\ Day(Value(result)[((n - 1) % 7) + 1]) = n
        /\ op \in QueryOps =>
               \A o \in Returned : Day(o) = n => Text(o) = <<"Missing text for day ", n>>

\* day n lacks a text, a transliteration, an English translation (absent or
\* empty) or its entry of DAILY_SEFIROT
Defective(n) ==
    \/ n \notin DOMAIN OMER_TEXTS \/ OMER_TEXTS[n] = EmptyStr
    \/ n \notin DOMAIN OMER_TRANSLITERATIONS \/ OMER_TRANSLITERATIONS[n] = EmptyStr
    \/ n \notin DOMAIN OMER_ENGLISH_TRANSLATIONS \/ OMER_ENGLISH_TRANSLATIONS[n] = EmptyStr
    \/ ~InDailySefirot(n)

\* C21: whatever the static tables hold, validate_data_integrity and
\* validate_omer_configuration return a list (they do not raise) with an entry for
\* every day 1..49 whose text, transliteration or English translation is missing
\* or empty or whose DAILY_SEFIROT entry is missing, and the list is empty exactly
\* when no day has such a defect.
C21_ValidationReportsDefects ==
    op \in {"validate_data_integrity", "validate_omer_configuration"} =>
        /\ Kind(result) = "list"
        /\ \A n \in 1..49 :
               Defective(n) => \E i \in 1..Len(Value(result)) : Value(result)[i][2] = n
        /\ Value(result) = <<>> <=> \A n \in 1..49 : ~Defective(n)

\* today's date resolves to an Omer day
TodayResolves == IsOmerDay(get_omer_text_by_date(<<"date", args.today>>, NoDate, args.answer))

\* C22: get_current_omer_status never fails: when today's date resolves to Omer
\* day n it returns a dict with is_omer_period True, day n, the week, day_of_week
\* and days_remaining of n, its sefirah_info and the blessing, prayer and kavana
\* texts; when today's date does not resolve to an Omer day it returns a dict with
\* is_omer_period False and a message.
C22_CurrentStatus ==
    op = "get_current_omer_status" =>
        /\ ~Raises(result)
        /\ TodayResolves =>
               LET o == get_omer_text_by_date(<<"date", args.today>>, NoDate, args.answer)
               IN  /\ Lookup(Items(result), "is_omer_period", None) = TRUE
                   /\ Lookup(Items(result), "day", None) = Day(o)
                   /\ Lookup(Items(result), "week", None) = week(o)
                   /\ Lookup(Items(result), "day_of_week", None) = day_of_week(o)
                   /\ Lookup(Items(result), "days_remaining", None) = days_remaining(o)
                   /\ {"sefirah_info", "blessing", "prayer", "kavana"} \subseteq Keys(Items(result))
        /\ ~TodayResolves =>
               /\ Lookup(Items(result), "is_omer_period", None) = FALSE
               /\ "message" \in Keys(Items(result))

\* entries of the dict to_dict returns
DictDay(d) == d[2]
DictIsSpecialDay(d) == d[13]

\* C23: export_omer_calendar with format "json" (in any letter case) returns a
\* dict with the hebrew_year it was given, total_days 49, the to_dict of the 49
\* days in ascending order of day, as special_days exactly the entries of that
\* list that have is_special_day set (days 18 and 33), and SEFIROT_ATTRIBUTES with
\* its 7 entries; a format other than "json" and "text" raises ValueError.
C23_ExportJson ==
    op = "export_omer_calendar" =>
        /\ lower(args.format_type) = JSON_FORMAT =>
               /\ ~Raises(result)
               /\ Lookup(Items(result), "hebrew_year", 0) =
                      (IF args.hebrew_year = NoYear THEN None ELSE args.hebrew_year)
               /\ Lookup(Items(result), "total_days", 0) = 49
               /\ LET days == Lookup(Items(result), "days", <<>>)
                      special_days == Lookup(Items(result), "special_days", <<>>)
                      all_days == Value(get_all_omer_days(args.hebrew_year, args.answer))
                  IN  /\ Len(days) = 49
                      /\ \A i \in 1..49 : days[i] = to_dict(all_days[i]) /\ DictDay(days[i]) = i
                      /\ special_days = SelectSeq(days, DictIsSpecialDay)
                      /\ [i \in 1..Len(special_days) |-> DictDay(special_days[i])] = <<18, 33>>
               /\ Items(Lookup(Items(result), "sefirot_attributes", <<>>)) = SEFIROT_ATTRIBUTES
               /\ DOMAIN SEFIROT_ATTRIBUTES = 1..7
        /\ lower(args.format_type) \notin {JSON_FORMAT, TEXT_FORMAT} =>
               Raises(result) /\ result[2] = "ValueError"

C23_Witness ==
    /\ op = "export_omer_calendar"
    /\ args.format_type = <<74, 83, 79, 78>>
    /\ args.hebrew_year \in HebrewYears
    /\ ~Raises(result)
    /\ Lookup(Items(result), "total_days", 0) = 49
    /\ Len(Lookup(Items(result), "special_days", <<>>)) = 2

\* C24: export_omer_calendar with format "text" succeeds and returns a non-empty
\* text of 49 day blocks in ascending order of day, each the format_output of its
\* day followed by a rule line.
C24_ExportText ==
    (op = "export_omer_calendar" /\ lower(args.format_type) = TEXT_FORMAT) =>
        /\ ~Raises(result)
        /\ Kind(result) = "str"
        /\ LET all_days == Value(get_all_omer_days(args.hebrew_year, args.answer))
               lines == ExportLines(all_days, args.config)
           IN  /\ result[3] = join("\n", lines)
               /\ Len(lines) = 2 * 49
               /\ \A i \in 1..49 :
                      /\ lines[2 * i - 1] = format_output(all_days[i], args.config, "ashkenazi")
                      /\ lines[2 * i] = <<"-", 50>>

\* C25: the blessing returned for a tradition is a new dict holding the fields of
\* OMER_BLESSING unchanged, plus the three intro fields taken from CUSTOM_TEXTS
\* exactly when CUSTOM_TEXTS has an omer_intro for the tradition (otherwise the
\* fields of OMER_BLESSING alone); the prayer is a new dict with the fields of
\* OMER_PRAYER; OMER_BLESSING, OMER_PRAYER and CUSTOM_TEXTS are never written to,
\* whatever callers do with the values returned to them.
C25_PureMerge ==
    /\ op = "get_blessing_text" =>
          LET custom == Lookup(CUSTOM_TEXTS, args.tradition, <<>>)
              fields == Items(result)
              canonical == TextItems("OMER_BLESSING")
          IN  /\ Kind(result) = "copy"
              /\ SubSeq(fields, 1, Len(canonical)) = canonical
              /\ IF "omer_intro" \in Keys(custom)
                    THEN /\ Keys(fields) = Keys(canonical)
                                \cup {"intro", "intro_transliteration", "intro_english"}
                         /\ Len(fields) = Len(canonical) + 3
                         /\ Lookup(fields, "intro", EmptyStr)
                              = <<args.tradition, "omer_intro">>
                         /\ Lookup(fields, "intro_transliteration", EmptyStr)
                              = <<args.tradition, "omer_intro_transliteration">>
                         /\ Lookup(fields, "intro_english", EmptyStr)
                              = <<args.tradition, "omer_intro_english">>
                    ELSE fields = canonical
    /\ op = "get_prayer_text" => result = Copy(TextItems("OMER_PRAYER"))
    /\ written \cap ({<<"OMER_BLESSING">>, <<"OMER_PRAYER">>}
                        \cup { <<"CUSTOM_TEXTS", t>> : t \in OmerTradition }) = {}
    /\ OMER_BLESSING = TextItems("OMER_BLESSING")
    /\ OMER_PRAYER = TextItems("OMER_PRAYER")

\* a blessing with an introduction, handed out after callers wrote to returned values
C25_Witness ==
    /\ op = "get_blessing_text"
    /\ args.tradition = "sefardi"
    /\ Len(Items(result)) = 6
    /\ written # {}

\* C26: callers share no mutable state: whatever a caller does with the values
\* returned to it, no object of data.py is written to, the kavanah handed out is
\* the shipped one, and the special_day_info of every OmerDay handed out is the
\* shipped entry of SPECIAL_DAYS.
C26_NoSharedState ==
    /\ written = {}
    /\ op = "get_kavana_text" => Items(result) = TextItems("KAVANNOT")
    /\ op \in {"get_omer_day_by_number", "find_special_omer_days"} =>
          \A o \in Returned : IsSpecialDay(o) => Len(SpecialDayInfo(o)) = 2

C28_WeekDescription ==
    (op = "get_week_description" /\ ~Raises(result)) =>
        LET n == args.day
            W == n \div 7
            D == n % 7
            description == result[3]
        IN  /\ n < 7 => description = EmptyStr
            /\ (n >= 7 /\ ~args.in_hebrew) =>
                   description =
                       IF D = 0
                         THEN <<"which are", W, IF W = 1 THEN "week" ELSE "weeks">>
                         ELSE <<"which are", W, IF W = 1 THEN "week" ELSE "weeks",
                                "and", D, IF D = 1 THEN "day" ELSE "days">>
            /\ (n >= 7 /\ args.in_hebrew) =>
                   LET week_text == IF W = 1 THEN <<"shavua echad">> ELSE <<W, "shavuot">>
                       day_text == IF D = 1 THEN <<"yom echad">> ELSE <<D, "yamim">>
                   IN  description =
                           IF D = 0 THEN <<"shehem", week_text>>
                           ELSE <<"shehem", week_text, "ve", day_text>>

\* C29: with the shipped tables, for every n in 1..49 get_omer_day_by_number(n) is
\* equal field for field to the n-th element of get_all_omer_days() and to the
\* element at position day_of_week of get_omer_days_by_week(week), week and
\* day_of_week being those of day n; seen from each of the three calls.
C29_ThreeWaysAgree ==
    /\ (op = "get_omer_day_by_number" /\ args.day_number \in 1..49) =>
          /\ IsOmerDay(result)
          /\ \A hebrew_year \in HebrewYears, answer \in TodayAnswers :
                 LET allDays == get_all_omer_days(hebrew_year, answer)
                     byWeek == get_omer_days_by_week(week(result), hebrew_year, answer)
                 IN  /\ Kind(allDays) = "list"
                     /\ result = Value(allDays)[args.day_number]
                     /\ Kind(byWeek) = "list"
                     /\ result = Value(byWeek)[day_of_week(result)]
    /\ (op = "get_all_omer_days" /\ Kind(result) = "list") =>
          /\ Len(Value(result)) = 49
          /\ \A n \in 1..49 : Value(result)[n] = get_omer_day_by_number(n)
    /\ (op = "get_omer_days_by_week" /\ Kind(result) = "list") =>
          /\ Len(Value(result)) = 7
          /\ \A i \in 1..7 :
                 Value(result)[i] = get_omer_day_by_number(7 * (args.week - 1) + i)

\* the last day, reached by its number and as the seventh day of week 7
C29_Witness ==
    /\ op = "get_omer_days_by_week"
    /\ args.week = 7
    /\ Kind(result) = "list"
    /\ Value(result)[7] = get_omer_day_by_number(49)
    /\ Day(Value(result)[7]) = 49

\* C30: the date part follows the date format: HEBREW_ONLY shows the Hebrew date
\* alone, GREGORIAN_ONLY the Gregorian date alone (in the configured format), BOTH
\* the Hebrew date, " / ", the Gregorian date, and ISO the Gregorian date as
\* %Y-%m-%d; the Gregorian part is there exactly when the format calls for it and
\* the object has a gregorian_date.
C30_DateInfo ==
    op = "_format_date_info" =>
        LET mode == args.date_format
            hebrew ==
                IF mode \in {"HEBREW_ONLY", "BOTH"} /\ args.hebrew_date # None
                  THEN << <<args.hebrew_date[1], " ",
                            <<"HEBREW_MONTH_NAMES_HEBREW", args.hebrew_date[2]>>>> >>
                  ELSE <<>>
            gregorian ==
                IF mode \in {"GREGORIAN_ONLY", "BOTH", "ISO"} /\ args.gregorian_date # NoDate
                  THEN <<strftime(args.gregorian_date,
                                  IF mode = "ISO" THEN "%Y-%m-%d" ELSE args.gregorian_format)>>
                  ELSE <<>>
        IN  result = StrV("{date_info}", join(" / ", hebrew \o gregorian))
====
